---- MODULE Spec2Model ----
(***************************************************************************)
(* Pixel Peeker (src/main.rs): the App state machine driven by iced        *)
(* messages, the capture path (capture_at_position,                        *)
(* calculate_capture_region, extract_color_at, create_preview), the color  *)
(* history and the settings that are written to disk.                      *)
(*                                                                         *)
(* Conventions                                                             *)
(*  - Option<T> is a sequence of length <= 1: None == <<>>, Some(v) == <<v>>.*)
(*  - A Color channel is the numerator n of the f32 value n/255, so        *)
(*    Color::from_rgb(p as f32 / 255.0) is the channel p and 1.0 is 255.   *)
(*  - i32 values are plain integers (the coordinates used stay far from    *)
(*    the ends of the i32 range).  A u32 value is held as its 32-bit       *)
(*    pattern read as an i32, so a value v >= 2^31 is held as v - 2^32:    *)
(*    the casts `as u32` and `as i32` keep the pattern, and the unsigned   *)
(*    order and the unsigned subtraction are U32Lt and U32Sub.             *)
(***************************************************************************)
EXTENDS Integers, Sequences, FiniteSets, TLC

VARIABLES
    current_color,      \* App.current_color : Option<ColorInfo>
    frozen_color,       \* App.frozen_color  : Option<ColorInfo>
    space_pressed_last_frame, \* App.input_state.space_pressed_last_frame
    color_history,      \* App.color_history : Vec<Color>
    zoom_factor,        \* App.zoom_factor
    settings,           \* App.settings (path is not modelled)
    settings_dirty,     \* App.settings_dirty
    now,                \* the Instant of the last Tick, in milliseconds since
                        \* App.last_save_time (set once, by App::new)
    overflow_checks,    \* build profile: TRUE = debug (overflow panics), FALSE = release (wraps)
    panicked,           \* the process has panicked (arithmetic overflow)
    last                \* the message handled last: its inputs, the capture calls it
                        \* issued, the settings it wrote to the settings file,
                        \* whether the picker was frozen when it arrived, and
                        \* whether Space was down at the latest Tick

vars == <<current_color, frozen_color, space_pressed_last_frame, color_history,
          zoom_factor, settings, settings_dirty, now, overflow_checks,
          panicked, last>>

(***************************************************************************)
(* Program constants                                                       *)
(***************************************************************************)
PREVIEW_SIZE == 21
MAX_COLOR_HISTORY == 10
AUTOSAVE_SECS == 5
TICK_MS == 33

(***************************************************************************)
(* Generic helpers                                                         *)
(***************************************************************************)
None == <<>>
Some(v) == <<v>>
IsSome(o) == o # <<>>
Unwrap(o) == o[1]

Max(a, b) == IF a >= b THEN a ELSE b
Min(a, b) == IF a <= b THEN a ELSE b

\* `v as u32` for an i32 v, and `v as i32` for a u32 v: the pattern is kept
AsU32(v) == v
AsI32(v) == v

\* The u32 held as pattern v is 2^31 or more
U32High(v) == v < 0

\* a < b for u32 a, b
U32Lt(a, b) == IF U32High(a) = U32High(b) THEN a < b ELSE U32High(b)

\* a - b for u32 a, b below 2^31: [value, overflow], the wrapped difference
\* and whether the subtraction overflowed
U32Sub(a, b) == [value |-> a - b, overflow |-> U32Lt(a, b)]

(***************************************************************************)
(* Colors and pixels                                                       *)
(***************************************************************************)
\* Color::from_rgb(r, g, b): alpha is 1.0
Color_from_rgb(r, g, b) == [r |-> r, g |-> g, b |-> b, a |-> 255]

\* impl From<Color> for SerializableColor: alpha is dropped
SerializableColor_from(color) == [r |-> color.r, g |-> color.g, b |-> color.b]

\* impl From<SerializableColor> for Color
Color_from(sc) == Color_from_rgb(sc.r, sc.g, sc.b)

\* Rgba<u8> pixels shown on the desktop
PixelA == <<255, 0, 0, 255>>
PixelB == <<0, 0, 255, 255>>

\* The desktop content at a virtual-desktop point: a checkerboard whose
\* phase is chosen by the environment at every capture.
ScreenPixel(phase, gx, gy) == IF (gx + gy + phase) % 2 = 0 THEN PixelA ELSE PixelB

(***************************************************************************)
(* Monitors (xcap::Monitor) as the capture path sees them.  A monitor is   *)
(* [x, y, width, height, scale, bounds_ok]: its virtual-desktop origin and *)
(* size as x(), y(), width(), height() answer them, the number of          *)
(* framebuffer pixels per unit of that size (the code never reads it), and *)
(* whether the four queries answer Ok.                                     *)
(***************************************************************************)
Mon(x, y, w, h) ==
    [x |-> x, y |-> y, width |-> w, height |-> h, scale |-> 1, bounds_ok |-> TRUE]

\* The point (x, y) lies in the monitor's box [x, x+width) x [y, y+height)
MonitorContains(monitor, x, y) ==
    /\ monitor.x <= x /\ x < monitor.x + monitor.width
    /\ monitor.y <= y /\ y < monitor.y + monitor.height

\* MonitorBounds::from_monitor: None when any of the four queries fails
MonitorBounds_from_monitor(monitor) ==
    IF monitor.bounds_ok
    THEN Some([x |-> monitor.x, y |-> monitor.y,
               width |-> monitor.width, height |-> monitor.height])
    ELSE None

\* App::calculate_capture_region, region_x and region_y: the ideal top-left
\* corner of the window around (x, y)
ideal_top_left(x, y) ==
    LET half_size == PREVIEW_SIZE \div 2
    IN <<x - half_size, y - half_size>>

\* calculate_capture_region without the clamp to the monitor's low edge
\* (the .max(bounds.x) and .max(bounds.y) are dropped)
calculate_capture_region_unclamped(monitor, x, y) ==
    LET b == MonitorBounds_from_monitor(monitor) IN
    IF b = None THEN None
    ELSE
      LET bounds == Unwrap(b)
          region_x == ideal_top_left(x, y)[1]
          region_y == ideal_top_left(x, y)[2]
          clamped_x == Min(region_x, bounds.x + bounds.width - PREVIEW_SIZE)
          clamped_y == Min(region_y, bounds.y + bounds.height - PREVIEW_SIZE)
          offset_x == Max(clamped_x - region_x, 0)
          offset_y == Max(clamped_y - region_y, 0)
      IN Some([x |-> clamped_x, y |-> clamped_y,
               width |-> PREVIEW_SIZE, height |-> PREVIEW_SIZE,
               offset_x |-> offset_x, offset_y |-> offset_y])

\* App::calculate_capture_region
calculate_capture_region(monitor, x, y) ==
    LET b == MonitorBounds_from_monitor(monitor) IN
    IF b = None THEN None
    ELSE
      LET bounds == Unwrap(b)
          region_x == ideal_top_left(x, y)[1]
          region_y == ideal_top_left(x, y)[2]
          clamped_x == Min(Max(region_x, bounds.x), bounds.x + bounds.width - PREVIEW_SIZE)
          clamped_y == Min(Max(region_y, bounds.y), bounds.y + bounds.height - PREVIEW_SIZE)
          offset_x == Max(clamped_x - region_x, 0)
          offset_y == Max(clamped_y - region_y, 0)
      IN Some([x |-> clamped_x, y |-> clamped_y,
               width |-> PREVIEW_SIZE, height |-> PREVIEW_SIZE,
               offset_x |-> offset_x, offset_y |-> offset_y])

\* The rectangle (x, y, width, height), in the monitor's local pixel space,
\* lies inside the monitor's framebuffer and is not empty.
RegionFits(monitor, x, y, width, height) ==
    /\ width >= 1 /\ height >= 1
    /\ ~U32High(x) /\ ~U32High(y)
    /\ x + width <= monitor.width * monitor.scale
    /\ y + height <= monitor.height * monitor.scale

\* Monitor::capture_region(x, y, width, height) of xcap, as called at
\* main.rs:428-429.  It reads the rectangle from the monitor's framebuffer in
\* monitor-local coordinates and answers Err when the rectangle does not fit
\* or when the environment makes the capture fail (fails).  The image is
\* [width, height, gx, gy, phase]: its size, the monitor's origin plus the
\* framebuffer index of its pixel (0, 0) (the virtual-desktop point of that
\* pixel when the scale is 1) and the desktop content at the time of the
\* capture.
capture_region(monitor, x, y, width, height, fails, phase) ==
    IF fails \/ ~RegionFits(monitor, x, y, width, height)
    THEN None
    ELSE Some([width |-> width, height |-> height,
               gx |-> monitor.x + x, gy |-> monitor.y + y, phase |-> phase])

\* RgbaImage::get_pixel
get_pixel(image, px, py) == ScreenPixel(image.phase, image.gx + px, image.gy + py)

\* extract_color_at
extract_color_at(image, x, y) ==
    IF U32Lt(x, image.width) /\ U32Lt(y, image.height)
    THEN LET pixel == get_pixel(image, x, y)
         IN Some(Color_from_rgb(pixel[1], pixel[2], pixel[3]))
    ELSE None

\* preview_pixel_data that takes the middle of the image for the center
preview_pixel_data_window_center(image, center_x, center_y, dx, dy) ==
    LET sample_x == PREVIEW_SIZE \div 2 + dx
        sample_y == PREVIEW_SIZE \div 2 + dy
    IN IF /\ sample_x >= 0 /\ sample_y >= 0
          /\ sample_x < image.width /\ sample_y < image.height
       THEN LET pixel == get_pixel(image, sample_x, sample_y)
            IN <<pixel[1], pixel[2], pixel[3]>>
       ELSE <<0, 0, 0>>

\* create_preview: the pixel_data of the cell (dx, dy) around the center
preview_pixel_data(image, center_x, center_y, dx, dy) ==
    LET sample_x == AsI32(center_x) + dx
        sample_y == AsI32(center_y) + dy
    IN IF /\ sample_x >= 0 /\ sample_y >= 0
          /\ sample_x < image.width /\ sample_y < image.height
       THEN LET pixel == get_pixel(image, sample_x, sample_y)
            IN <<pixel[1], pixel[2], pixel[3]>>
       ELSE <<0, 0, 0>>

\* preview_rgb_data with the ranges -half_size..half_size (exclusive) in
\* place of -half_size..=half_size
preview_rgb_data_exclusive_range(image, center_x, center_y) ==
    LET half_size == PREVIEW_SIZE \div 2
        side == 2 * half_size
    IN [i \in 1..(side * side * 3) |->
          LET cell == (i - 1) \div 3
              dy == (cell \div side) - half_size
              dx == (cell % side) - half_size
          IN preview_pixel_data(image, center_x, center_y, dx, dy)[((i - 1) % 3) + 1]]

\* create_preview: the bytes pushed to rgb_data, 3 per cell, rows
\* dy = -half..half and within a row dx = -half..half
preview_rgb_data(image, center_x, center_y) ==
    LET half_size == PREVIEW_SIZE \div 2
        side == 2 * half_size + 1
    IN [i \in 1..(side * side * 3) |->
          LET cell == (i - 1) \div 3
              dy == (cell \div side) - half_size
              dx == (cell % side) - half_size
          IN preview_pixel_data(image, center_x, center_y, dx, dy)[((i - 1) % 3) + 1]]

\* create_preview.  The PreviewData is held as the arguments it was built
\* from; its rgb_data is rgb_data(preview), so two previews held as equal
\* have equal bytes.
create_preview(image, center_x, center_y) ==
    Some([image |-> image, center_x |-> center_x, center_y |-> center_y,
          width |-> PREVIEW_SIZE, height |-> PREVIEW_SIZE])

\* PreviewData.rgb_data
rgb_data(preview) == preview_rgb_data(preview.image, preview.center_x, preview.center_y)

(***************************************************************************)
(* App::capture_at_position.  The environment of one call is               *)
(*   monitors : the answer of Monitor::all(), None for Err                 *)
(*   failing  : the indices of the monitors whose capture_region fails     *)
(*   phase    : the desktop content                                        *)
(* The result is [current_color, calls, panic]: the new App.current_color, *)
(* the capture_region calls issued, in order, and whether the call         *)
(* panicked on an arithmetic overflow.  A call record holds the monitor,   *)
(* the region computed for it, the arguments passed (u32), the outcome and,*)
(* when the capture succeeded, the center index and whether a sample was   *)
(* stored.                                                                 *)
(***************************************************************************)
CallRecord(i, monitor, region, ok) ==
    [index |-> i, monitor |-> monitor, region |-> region,
     x |-> AsU32(region.x), y |-> AsU32(region.y),
     width |-> region.width, height |-> region.height,
     ok |-> ok, center |-> None, sampled |-> FALSE]

\* App::capture_at_position, lines 431-432: PREVIEW_SIZE / 2 - offset in u32
center_index(offset) == U32Sub(PREVIEW_SIZE \div 2, offset)

\* App::capture_at_position, lines 434-438: the sample is stored when the
\* center pixel can be extracted; then the method returns
store_sample(current, position, image, center_x, center_y, call) ==
    LET c == extract_color_at(image, center_x, center_y)
    IN [current_color |->
          IF IsSome(c)
          THEN Some([color |-> Unwrap(c), position |-> position,
                     preview |-> create_preview(image, center_x, center_y)])
          ELSE current,
        calls |-> <<[call EXCEPT !.center = Some(<<center_x, center_y>>),
                                 !.sampled = IsSome(c)]>>,
        panic |-> FALSE]

\* App::capture_at_position, lines 431-438: after capture_region answered
\* Ok(image).  With overflow checks an underflow of the center index panics.
on_captured(current, position, image, region, call, checks) ==
    IF checks /\ (center_index(region.offset_x).overflow
                    \/ center_index(region.offset_y).overflow)
    THEN [current_color |-> current, calls |-> <<call>>, panic |-> TRUE]
    ELSE store_sample(current, position, image,
                      center_index(region.offset_x).value,
                      center_index(region.offset_y).value, call)

\* App::capture_at_position, lines 428-439: the capture on the i-th monitor;
\* rest is what the loop does from the next monitor on, taken when the
\* capture fails
try_capture(i, monitor, region, current, position, env, checks, rest) ==
    LET result == capture_region(monitor, AsU32(region.x), AsU32(region.y),
                                 region.width, region.height,
                                 i \in env.failing, env.phase)
    IN IF result = None
       THEN [rest EXCEPT !.calls = <<CallRecord(i, monitor, region, FALSE)>> \o @]
       ELSE on_captured(current, position, Unwrap(result), region,
                        CallRecord(i, monitor, region, TRUE), checks)

\* App::capture_at_position, lines 427-440: the body of the loop for the
\* i-th monitor; r is the region calculated for it, and the loop goes on to
\* the next monitor (rest) when there is none
try_monitor(i, monitor, r, current, position, env, checks, rest) ==
    IF r = None
    THEN rest
    ELSE try_capture(i, monitor, Unwrap(r), current, position, env, checks, rest)

\* App::capture_at_position, `for monitor in monitors`: loop[i] is what the
\* loop does from the i-th monitor on (the calls it issues and the sample it
\* leaves); the `return` after a successful capture ends it.
capture_loop(monitors, current, position, env, checks) ==
    LET n == Len(monitors)
        loop[i \in 1..(n + 1)] ==
          IF i > n
          THEN [current_color |-> current, calls |-> <<>>, panic |-> FALSE]
          ELSE
            try_monitor(i, monitors[i],
                        calculate_capture_region(monitors[i], position[1], position[2]),
                        current, position, env, checks, loop[i + 1])
    IN loop[1]

\* capture_at_position that clears the held sample when no monitor is
\* enumerated
capture_at_position_clearing(current, position, env, checks) ==
    IF env.monitors = None
    THEN [current_color |-> None, calls |-> <<>>, panic |-> FALSE]
    ELSE capture_loop(Unwrap(env.monitors), current, position, env, checks)

capture_at_position(current, position, env, checks) ==
    IF env.monitors = None
    THEN [current_color |-> current, calls |-> <<>>, panic |-> FALSE]
    ELSE capture_loop(Unwrap(env.monitors), current, position, env, checks)

(***************************************************************************)
(* The App methods.  `self` is the record of the App fields together with  *)
(* the panic flag and, for the handler in progress, the capture calls      *)
(* issued (calls) and the settings written to the settings file (saved),   *)
(* in order; each method maps self to the self it leaves.                  *)
(***************************************************************************)
Self ==
    [current_color |-> current_color, frozen_color |-> frozen_color,
     space_pressed_last_frame |-> space_pressed_last_frame,
     color_history |-> color_history, zoom_factor |-> zoom_factor,
     settings |-> settings, settings_dirty |-> settings_dirty,
     panicked |-> FALSE, calls |-> <<>>, saved |-> <<>>]

\* color_history.iter().map(|c| SerializableColor::from(*c)).collect()
serializable_history(history) ==
    [i \in 1..Len(history) |-> SerializableColor_from(history[i])]

\* settings.color_history.iter().map(|c| Color::from(c.clone())).collect()
loaded_history(history) == [i \in 1..Len(history) |-> Color_from(history[i])]

\* Settings::save: self.settings is written to the file when the write
\* succeeds (save_ok); an Err is only printed
Settings_save(self, save_ok) ==
    IF save_ok THEN [self EXCEPT !.saved = Append(self.saved, self.settings)] ELSE self

\* App::update_settings
update_settings(self) ==
    [self EXCEPT !.settings.color_history = serializable_history(self.color_history),
                 !.settings.zoom_factor = self.zoom_factor,
                 !.settings_dirty = TRUE]

\* App::save_settings_if_dirty
save_settings_if_dirty(self, save_ok) ==
    IF self.settings_dirty
    THEN [Settings_save(self, save_ok) EXCEPT !.settings_dirty = FALSE]
    ELSE self

\* App::is_frozen
is_frozen(self) == IsSome(self.frozen_color)

\* App::get_active_color
get_active_color(self) ==
    IF IsSome(self.frozen_color) THEN self.frozen_color ELSE self.current_color

\* Vec::last().copied()
last_copied(history) == IF history = <<>> THEN None ELSE Some(history[Len(history)])

\* add_to_history without the eviction of the oldest entry
add_to_history_no_eviction(history, color) ==
    IF last_copied(history) # Some(color) THEN Append(history, color) ELSE history

\* add_to_history without the comparison with the last entry
add_to_history_no_comparison(history, color) ==
    LET pushed == Append(history, color)
    IN IF Len(pushed) > MAX_COLOR_HISTORY THEN Tail(pushed) ELSE pushed

\* add_to_history that cuts a history grown past the maximum at its end
\* (truncate in place of remove(0))
add_to_history_truncating(history, color) ==
    IF last_copied(history) # Some(color)
    THEN LET pushed == Append(history, color)
         IN IF Len(pushed) > MAX_COLOR_HISTORY
            THEN SubSeq(pushed, 1, MAX_COLOR_HISTORY)
            ELSE pushed
    ELSE history

\* App::add_to_history, on the history vector
add_to_history(history, color) ==
    IF last_copied(history) # Some(color)
    THEN LET pushed == Append(history, color)
         IN IF Len(pushed) > MAX_COLOR_HISTORY THEN Tail(pushed) ELSE pushed
    ELSE history

\* App::capture_at_position: what the call, with result r, leaves of self
captured(self, r) ==
    [self EXCEPT !.current_color = r.current_color,
                 !.calls = self.calls \o r.calls,
                 !.panicked = r.panic]

\* App::capture_at_position on self
self_capture_at_position(self, position, env, checks) ==
    captured(self, capture_at_position(self.current_color, position, env, checks))

\* App::handle_freeze, lines 401-404: a frozen picker is unfrozen and samples
\* again before it freezes
recaptured(self, position, env, checks) ==
    IF is_frozen(self)
    THEN self_capture_at_position([self EXCEPT !.frozen_color = None],
                                  position, env, checks)
    ELSE self

\* freeze_current without the call of add_to_history
freeze_current_no_history(self, save_ok) ==
    IF self.panicked THEN self
    ELSE IF IsSome(self.current_color)
    THEN save_settings_if_dirty([self EXCEPT !.frozen_color = self.current_color], save_ok)
    ELSE self

\* freeze_current that freezes the sample without its grid
freeze_current_without_grid(self, save_ok) ==
    IF self.panicked THEN self
    ELSE IF IsSome(self.current_color)
    THEN save_settings_if_dirty(
           [self EXCEPT !.frozen_color =
                           Some([Unwrap(self.current_color) EXCEPT !.preview = None]),
                        !.color_history = add_to_history(self.color_history,
                                                         Unwrap(self.current_color).color)],
           save_ok)
    ELSE self

\* App::handle_freeze, lines 406-410: `if let Some(current) = self.current_color`
freeze_current(self, save_ok) ==
    IF self.panicked THEN self
    ELSE IF IsSome(self.current_color)
    THEN save_settings_if_dirty(
           [self EXCEPT !.frozen_color = self.current_color,
                        !.color_history = add_to_history(self.color_history,
                                                         Unwrap(self.current_color).color)],
           save_ok)
    ELSE self

\* handle_freeze that, when the picker is frozen, samples again but keeps
\* the sample frozen before
handle_freeze_no_refresh(self, position, env, checks, save_ok) ==
    IF is_frozen(self)
    THEN self_capture_at_position(self, position, env, checks)
    ELSE freeze_current(self, save_ok)

\* handle_freeze that samples at the cursor point before it freezes, also
\* when the picker is not frozen
handle_freeze_capturing_first(self, position, env, checks, save_ok) ==
    freeze_current(self_capture_at_position([self EXCEPT !.frozen_color = None],
                                            position, env, checks),
                   save_ok)

\* handle_freeze that freezes without recording the color in the history
handle_freeze_no_history(self, position, env, checks, save_ok) ==
    freeze_current_no_history(recaptured(self, position, env, checks), save_ok)

\* App::handle_freeze
handle_freeze(self, position, env, checks, save_ok) ==
    freeze_current(recaptured(self, position, env, checks), save_ok)

\* process_input that answers Freeze for as long as Space is down
process_input_level(space_pressed, esc_pressed, pressed_last_frame) ==
    IF space_pressed THEN "Freeze"
    ELSE IF esc_pressed THEN "Unfreeze"
    ELSE "None"

\* App::process_input: the InputEvent for the polled keys
process_input(space_pressed, esc_pressed, pressed_last_frame) ==
    LET just_pressed == space_pressed /\ ~pressed_last_frame
    IN IF just_pressed THEN "Freeze"
       ELSE IF esc_pressed THEN "Unfreeze"
       ELSE "None"

\* on_input_event without the return of a frozen picker: a tick without an
\* event samples also while the picker is frozen
on_input_event_sampling_frozen(input_event, self, mouse_pos, env, checks, save_ok) ==
    CASE input_event = "Freeze" -> handle_freeze(self, mouse_pos, env, checks, save_ok)
      [] input_event = "Unfreeze" -> [self EXCEPT !.frozen_color = None]
      [] OTHER -> self_capture_at_position(self, mouse_pos, env, checks)

\* App::update_color_picking, lines 347-363: the match on the input event
on_input_event(input_event, self, mouse_pos, env, checks, save_ok) ==
    CASE input_event = "Freeze" -> handle_freeze(self, mouse_pos, env, checks, save_ok)
      [] input_event = "Unfreeze" -> [self EXCEPT !.frozen_color = None]
      [] OTHER -> IF is_frozen(self) THEN self
                  ELSE self_capture_at_position(self, mouse_pos, env, checks)

\* App::update_color_picking
update_color_picking(self, space_pressed, esc_pressed, mouse_pos, env, checks, save_ok) ==
    on_input_event(process_input(space_pressed, esc_pressed, self.space_pressed_last_frame),
                   [self EXCEPT !.space_pressed_last_frame = space_pressed],
                   mouse_pos, env, checks, save_ok)

\* Duration::as_secs of a duration given in milliseconds
as_secs(ms) == ms \div 1000

\* App::update, Message::Tick, lines 282-284: the save every 5 seconds
autosave(self, elapsed, save_ok) ==
    IF self.panicked THEN self
    ELSE IF self.settings_dirty /\ elapsed >= AUTOSAVE_SECS
    THEN save_settings_if_dirty(self, save_ok)
    ELSE self

\* App::update, Message::Tick(now): elapsed is
\* now.duration_since(self.last_save_time).as_secs()
update_Tick(self, elapsed, space_pressed, esc_pressed, mouse_pos, env, checks, save_ok) ==
    autosave(update_color_picking(self, space_pressed, esc_pressed, mouse_pos, env,
                                  checks, save_ok),
             elapsed, save_ok)

(***************************************************************************)
(* Message handlers of App::update that do not poll the input              *)
(***************************************************************************)
\* `v as i32` for an f32 v given in tenths: truncation toward zero
F32AsI32(tenths) == IF tenths >= 0 THEN tenths \div 10 ELSE -((-tenths) \div 10)

update_ZoomFactor(self, z) == update_settings([self EXCEPT !.zoom_factor = z])

update_WindowResized(self, size) ==
    [self EXCEPT !.settings.window_width = size[1],
                 !.settings.window_height = size[2],
                 !.settings_dirty = TRUE]

update_WindowMoved(self, position) ==
    [self EXCEPT !.settings.window_x = Some(F32AsI32(position[1])),
                 !.settings.window_y = Some(F32AsI32(position[2])),
                 !.settings_dirty = TRUE]

\* window::Event::CloseRequested: save_settings_if_dirty, then a final save
update_CloseRequested(self, save_ok1, save_ok2) ==
    Settings_save(save_settings_if_dirty(self, save_ok1), save_ok2)

update_ToggleAlwaysOnTop(self) ==
    [self EXCEPT !.settings.always_on_top = ~self.settings.always_on_top,
                 !.settings_dirty = TRUE]

update_ClearHistory(self, save_ok) ==
    save_settings_if_dirty(update_settings([self EXCEPT !.color_history = <<>>]), save_ok)

update_SaveSettings(self, save_ok) == save_settings_if_dirty(self, save_ok)

\* HistoryColorClicked that also replaces the live sample by the synthetic one
update_HistoryColorClicked_as_live(self, color) ==
    [self EXCEPT !.frozen_color =
                    Some([color |-> color, position |-> <<0, 0>>, preview |-> None]),
                 !.current_color =
                    Some([color |-> color, position |-> <<0, 0>>, preview |-> None])]

update_HistoryColorClicked(self, color) ==
    [self EXCEPT !.frozen_color =
        Some([color |-> color, position |-> <<0, 0>>, preview |-> None])]

(***************************************************************************)
(* Bounds and input sets                                                   *)
(***************************************************************************)
\* Desktop contents the environment chooses from: phases 0..MaxPhase
MaxPhase == 1
Phases == 0..MaxPhase

\* The clock shows 0 or MaxElapsed seconds since App::new at a Tick
MaxElapsed == 5
Instants == {0, MaxElapsed * 1000}

\* The ticks of the 33 ms subscription that are followed one by one
MaxTicks == 3

\* The longest color history a settings file written by another hand holds
MaxFileHistory == 11

ColorA == Color_from_rgb(PixelA[1], PixelA[2], PixelA[3])
ColorB == Color_from_rgb(PixelB[1], PixelB[2], PixelB[3])

\* A history of n alternating colors starting with first
AltHistory(n, first) ==
    [i \in 1..n |-> SerializableColor_from(
                      IF i % 2 = 1 THEN first
                      ELSE IF first = ColorA THEN ColorB ELSE ColorA)]

\* A history of n grays, each entry another one
GrayHistory(n) == [i \in 1..n |-> SerializableColor_from(Color_from_rgb(i, i, i))]

\* Histories found in a settings file this program wrote: at most
\* MAX_COLOR_HISTORY entries, no two adjacent entries equal
WrittenHistories ==
    {AltHistory(n, ColorA) : n \in {0, MAX_COLOR_HISTORY - 1, MAX_COLOR_HISTORY}}

\* Histories found in any settings file that parses
AnyFileHistories ==
    WrittenHistories
      \cup {AltHistory(n, ColorB) : n \in (MAX_COLOR_HISTORY + 1)..MaxFileHistory}
      \cup {<<SerializableColor_from(ColorA), SerializableColor_from(ColorA)>>}
      \cup {GrayHistory(MAX_COLOR_HISTORY)}

\* impl Default for Settings (zoom in tenths)
Settings_default ==
    [window_width |-> 600, window_height |-> 500,
     window_x |-> None, window_y |-> None,
     color_history |-> <<>>, zoom_factor |-> 10, always_on_top |-> TRUE]

\* Message payloads
ZoomFactors == {25}
WindowSizes == {<<600, 500>>}
WindowPositions == {<<1007, -5>>}

\* Keys device_query may report as pressed at a Tick
AnyKeys == [space |-> BOOLEAN, escape |-> BOOLEAN]
NoKeys == [space |-> {FALSE}, escape |-> {FALSE}]

\* Monitors: one at the origin, its right and left neighbours, one smaller
\* than the preview window, one whose bounds cannot be read, and the
\* 1920x1080 displays D1 and D2, D2 with a 3840x2160 framebuffer
MonitorA == Mon(0, 0, 30, 25)
MonitorB == Mon(30, 0, 30, 25)
MonitorL == Mon(-30, 0, 30, 25)
MonitorS == Mon(0, 0, 15, 15)
MonitorU == [Mon(0, 0, 30, 25) EXCEPT !.bounds_ok = FALSE]
MonitorD1 == Mon(0, 0, 1920, 1080)
MonitorD2 == [Mon(1920, 0, 1920, 1080) EXCEPT !.scale = 2]

\* Monitor enumerations (the answers of Monitor::all()) and cursor points
Desktops == {None, Some(<<MonitorA>>)}
Points == {<<12, 12>>}
PickerPoints == {<<12, 12>>, <<27, 12>>}
CaptureDesktops ==
    {None, Some(<<>>), Some(<<MonitorA>>), Some(<<MonitorA, MonitorB>>),
     Some(<<MonitorL, MonitorA>>), Some(<<MonitorS>>), Some(<<MonitorU, MonitorA>>),
     Some(<<MonitorD1, MonitorD2>>)}
CapturePoints ==
    {<<0, 0>>, <<3, 20>>, <<12, 12>>, <<27, 12>>, <<12, 24>>, <<35, 5>>, <<-5, 5>>,
     <<1930, 10>>}

(***************************************************************************)
(* The state machine                                                       *)
(***************************************************************************)
\* What `last` holds after a message that polls nothing and left self as s
Handled(msg, s) ==
    [msg |-> msg, input_event |-> "None", mouse_pos |-> <<0, 0>>,
     monitors |-> None, calls |-> <<>>, saved |-> s.saved,
     was_frozen |-> is_frozen(Self), space_pressed |-> last.space_pressed]

\* main + Settings::load + App::new: the settings are the defaults when no
\* file parses, else the file's; the history is converted entry by entry.
\* builds are the values of overflow_checks.
InitWith(histories, builds) ==
    /\ settings \in {[Settings_default EXCEPT !.color_history = h] : h \in histories}
    /\ current_color = None
    /\ frozen_color = None
    /\ space_pressed_last_frame = FALSE
    /\ color_history = loaded_history(settings.color_history)
    /\ zoom_factor = settings.zoom_factor
    /\ settings_dirty = FALSE
    /\ now = 0
    /\ overflow_checks \in builds
    /\ panicked = FALSE
    /\ last = [msg |-> "new", input_event |-> "None", mouse_pos |-> <<0, 0>>,
               monitors |-> None, calls |-> <<>>, saved |-> <<>>,
               was_frozen |-> FALSE, space_pressed |-> FALSE]

\* The variables after a handler that left self as s
Becomes(s) ==
    /\ current_color' = s.current_color
    /\ frozen_color' = s.frozen_color
    /\ space_pressed_last_frame' = s.space_pressed_last_frame
    /\ color_history' = s.color_history
    /\ zoom_factor' = s.zoom_factor
    /\ settings' = s.settings
    /\ settings_dirty' = s.settings_dirty
    /\ panicked' = s.panicked
    /\ UNCHANGED overflow_checks

\* Message::Tick(now), with the keys and the cursor polled by device_query
\* and the monitors answering as the environment chooses
TickIn(keys, points, desktops, phases, instants) ==
    /\ ~panicked
    /\ \E space_pressed \in keys.space, esc_pressed \in keys.escape, mouse_pos \in points,
          monitors \in desktops, phase \in phases, t \in instants,
          save_ok \in (IF settings_dirty THEN BOOLEAN ELSE {TRUE}) :
         \E failing \in SUBSET (1..(IF monitors = None THEN 0 ELSE Len(Unwrap(monitors)))) :
         \E s \in {update_Tick(Self, as_secs(t), space_pressed, esc_pressed, mouse_pos,
                               [monitors |-> monitors, failing |-> failing, phase |-> phase],
                               overflow_checks, save_ok)} :
              /\ t >= now
              /\ now' = t
              /\ Becomes(s)
              /\ last' = [msg |-> "Tick",
                          input_event |-> process_input(space_pressed, esc_pressed,
                                                        space_pressed_last_frame),
                          mouse_pos |-> mouse_pos, monitors |-> monitors,
                          calls |-> s.calls, saved |-> s.saved,
                          was_frozen |-> is_frozen(Self),
                          space_pressed |-> space_pressed]

\* A message that polls nothing, whose handler left self as s
Handle(msg, after) ==
    \E s \in {after} :
        /\ Becomes(s)
        /\ last' = Handled(msg, s)
        /\ UNCHANGED now

\* Message::HistoryColorClicked(color): sent by a button of the history row,
\* which offers the colors of color_history
HistoryColorClicked ==
    /\ ~panicked
    /\ \E i \in 1..Len(color_history) :
         Handle("HistoryColorClicked", update_HistoryColorClicked(Self, color_history[i]))

ClearHistory ==
    /\ ~panicked
    /\ \E save_ok \in BOOLEAN : Handle("ClearHistory", update_ClearHistory(Self, save_ok))

ZoomFactor ==
    /\ ~panicked
    /\ \E z \in ZoomFactors : Handle("ZoomFactor", update_ZoomFactor(Self, z))

\* Message::WindowResized, also reached from WindowEvent(Resized)
WindowResized ==
    /\ ~panicked
    /\ \E size \in WindowSizes : Handle("WindowResized", update_WindowResized(Self, size))

\* Message::WindowMoved, also reached from WindowEvent(Moved)
WindowMoved ==
    /\ ~panicked
    /\ \E position \in WindowPositions :
         Handle("WindowMoved", update_WindowMoved(Self, position))

\* Message::WindowEvent(CloseRequested)
CloseRequested ==
    /\ ~panicked
    /\ \E save_ok1 \in BOOLEAN, save_ok2 \in BOOLEAN :
         Handle("CloseRequested", update_CloseRequested(Self, save_ok1, save_ok2))

ToggleAlwaysOnTop ==
    /\ ~panicked
    /\ Handle("ToggleAlwaysOnTop", update_ToggleAlwaysOnTop(Self))

SaveSettings ==
    /\ ~panicked
    /\ \E save_ok \in BOOLEAN : Handle("SaveSettings", update_SaveSettings(Self, save_ok))

(***************************************************************************)
(* Spec: every message, a cursor on one monitor                            *)
(***************************************************************************)
Init == InitWith(WrittenHistories, BOOLEAN)

Tick == TickIn(AnyKeys, Points, Desktops, {0}, Instants)

Next ==
    \/ Tick
    \/ HistoryColorClicked
    \/ ClearHistory
    \/ ZoomFactor
    \/ WindowResized
    \/ WindowMoved
    \/ CloseRequested
    \/ ToggleAlwaysOnTop
    \/ SaveSettings

Spec == Init /\ [][Next]_vars

(***************************************************************************)
(* SpecPicker: the picker state machine (freeze, unfreeze, re-freeze,      *)
(* history selection) with a moving cursor and a changing desktop          *)
(***************************************************************************)
InitPicker == InitWith(WrittenHistories, {FALSE})

PickerTick == TickIn(AnyKeys, PickerPoints, Desktops, Phases, {0})

NextPicker ==
    \/ PickerTick
    \/ HistoryColorClicked
    \/ ClearHistory

SpecPicker == InitPicker /\ [][NextPicker]_vars

(***************************************************************************)
(* SpecCapture: live ticks over every monitor arrangement and cursor point *)
(* in both build profiles                                                  *)
(***************************************************************************)
InitCapture == InitWith({<<>>}, BOOLEAN)

CaptureTick == TickIn(NoKeys, CapturePoints, CaptureDesktops, Phases, {0})

NextCapture == CaptureTick

SpecCapture == InitCapture /\ [][NextCapture]_vars

(***************************************************************************)
(* SpecAnyFile: Spec started from any settings file that parses            *)
(***************************************************************************)
InitAnyFile == InitWith(AnyFileHistories, BOOLEAN)

SpecAnyFile == InitAnyFile /\ [][Next]_vars

(***************************************************************************)
(* SpecClock: the Tick messages of the subscription, TICK_MS apart          *)
(***************************************************************************)
InitClock == InitWith({<<>>}, {FALSE})

\* iced::time::every(33 ms): the next Tick carries the Instant 33 ms later
ClockTick ==
    /\ now < MaxTicks * TICK_MS
    /\ TickIn(AnyKeys, PickerPoints, Desktops, Phases, {now + TICK_MS})

NextClock == ClockTick

SpecClock == InitClock /\ [][NextClock]_vars

(***************************************************************************)
(* Properties                                                              *)
(***************************************************************************)
\* The capture_region calls issued by the message handled last
Calls == {last.calls[i] : i \in 1..Len(last.calls)}

\* Two adjacent entries of the sequence h are never equal
NoAdjacentEqual(h) == \A i \in 1..(Len(h) - 1) : h[i] # h[i + 1]

C3_FailedCaptureKeepsSample ==
    [][(last'.msg = "Tick" /\ \A c \in Calls' : ~c.sampled)
         => current_color' = current_color]_vars

\* C3 witness: every capture_region call of the last tick failed and the
\* sample captured earlier at another point is still held
C3_Witness ==
    /\ last.msg = "Tick"
    /\ Calls # {}
    /\ \A c \in Calls : ~c.ok
    /\ current_color # None
    /\ Unwrap(current_color).position # last.mouse_pos

\* C4: a capture attempt never meets an arithmetic fault: no panic, the
\* center index PREVIEW_SIZE/2 - offset does not wrap below zero, and the
\* region coordinates cast to u32 are not negative.
C4_NoArithmeticFault ==
    /\ ~panicked
    /\ \A c \in Calls :
         /\ c.region.x >= 0 /\ c.region.y >= 0
         /\ c.region.offset_x <= PREVIEW_SIZE \div 2
         /\ c.region.offset_y <= PREVIEW_SIZE \div 2

\* C5: capture_region is called only on a monitor whose box contains the
\* cursor point, and on the first such monitor of the enumeration.
C5_CaptureOnlyFromContainingMonitor ==
    \A c \in Calls :
        /\ MonitorContains(c.monitor, last.mouse_pos[1], last.mouse_pos[2])
        /\ \A j \in 1..(c.index - 1) :
             ~MonitorContains(Unwrap(last.monitors)[j], last.mouse_pos[1], last.mouse_pos[2])

\* C6: when the cursor is inside a monitor of at least 21 x 21 pixels and
\* the sample is taken from it, region origin + center index is the cursor
\* point on both axes.
C6_CenterAddressesQueryPixel ==
    \A c \in Calls :
        (/\ c.sampled
         /\ MonitorContains(c.monitor, last.mouse_pos[1], last.mouse_pos[2])
         /\ c.monitor.width >= PREVIEW_SIZE /\ c.monitor.height >= PREVIEW_SIZE)
        => /\ c.region.x + Unwrap(c.center)[1] = last.mouse_pos[1]
           /\ c.region.y + Unwrap(c.center)[2] = last.mouse_pos[2]

\* C7: on D1 (origin (0,0), 1920 x 1080) the point (0,0) has the ideal
\* top-left (-10,-10), the capture rectangle starts at (0,0), the offset is
\* (10,10) and the center-of-interest cell is (0,0).
C7_OriginScenario ==
    /\ ideal_top_left(0, 0) = <<-10, -10>>
    /\ \A c \in Calls :
         (c.monitor = MonitorD1 /\ last.mouse_pos = <<0, 0>>)
         => /\ c.region.x = 0 /\ c.region.y = 0
            /\ c.x = 0 /\ c.y = 0
            /\ c.region.offset_x = 10 /\ c.region.offset_y = 10
            /\ (c.ok /\ ~panicked => c.center = Some(<<0, 0>>))

\* C7 witness: the point (0,0) was sampled from D1 at the cell (0,0)
C7_Witness ==
    \E c \in Calls :
        /\ c.monitor = MonitorD1 /\ last.mouse_pos = <<0, 0>>
        /\ c.sampled /\ c.center = Some(<<0, 0>>)
        /\ current_color # None /\ Unwrap(current_color).position = <<0, 0>>

\* C8: every region passed to capture_region lies inside the monitor's own
\* framebuffer, in the monitor's local pixel space, and is at least 1 x 1.
C8_RegionInsideMonitor ==
    \A c \in Calls : RegionFits(c.monitor, c.x, c.y, c.width, c.height)

\* The history after the color is recorded: unchanged when the color
\* equals the last entry, else the color is the new last entry
Recorded(before, after, color) ==
    IF before # <<>> /\ before[Len(before)] = color
    THEN after = before
    ELSE after \in {Append(before, color), Tail(Append(before, color))}

\* C9: a freeze request processed in Live while a sample is held makes the
\* frozen sample equal to the held live sample (color, position, grid) and
\* records its color in the history unless it equals the last entry.
C9_FreezeSnapshotsLiveSample ==
    [][(/\ last'.msg = "Tick" /\ last'.input_event = "Freeze"
        /\ frozen_color = None /\ current_color # None)
       => /\ frozen_color' = current_color
          /\ current_color' = current_color
          /\ Recorded(color_history, color_history', Unwrap(current_color).color)]_vars

\* C9 witness: a freeze in Live (no capture was issued although a monitor
\* was there) froze the held sample and its color ends the history
C9_Witness ==
    /\ last.msg = "Tick" /\ last.input_event = "Freeze"
    /\ last.monitors = Some(<<MonitorA>>) /\ last.calls = <<>>
    /\ frozen_color # None /\ frozen_color = current_color
    /\ color_history # <<>>
    /\ color_history[Len(color_history)] = Unwrap(frozen_color).color

\* C10: a freeze request processed while the picker is Frozen leaves the
\* picker Frozen.
C10_RefreezeStaysFrozen ==
    [][(last'.msg = "Tick" /\ last'.input_event = "Freeze" /\ frozen_color # None)
       => frozen_color' # None]_vars

\* C11: a freeze request processed while Frozen captures again at the
\* cursor point of the tick; when that capture stores a sample, the frozen
\* sample is the newly stored sample and its position is that cursor point.
C11_RefreezeTakesNewSample ==
    [][(/\ last'.msg = "Tick" /\ last'.input_event = "Freeze"
        /\ frozen_color # None
        /\ \E c \in Calls' : c.sampled)
       => /\ frozen_color' # None
          /\ frozen_color' = current_color'
          /\ Unwrap(frozen_color').position = last'.mouse_pos]_vars

\* C11 witness: a freeze tick that issued a capture (so the picker was
\* frozen) left the sample of the right-edge point frozen, and its color is
\* the last of the history
C11_Witness ==
    /\ last.msg = "Tick" /\ last.input_event = "Freeze"
    /\ last.was_frozen
    /\ \E c \in Calls : c.sampled
    /\ last.mouse_pos = <<27, 12>>
    /\ frozen_color # None /\ frozen_color = current_color
    /\ Unwrap(frozen_color).position = <<27, 12>>
    /\ color_history # <<>>
    /\ color_history[Len(color_history)] = Unwrap(frozen_color).color

\* C12: an unfreeze request (Escape held, no rising edge of Space)
\* processed in Frozen discards the frozen sample, issues no capture and
\* leaves the live sample and the history unchanged; and live sampling
\* resumes on the next tick: unless that tick is a freeze request it
\* captures (capture_region is called when a monitor is enumerated).
C12_UnfreezeResumesLive ==
    [][/\ (/\ last'.msg = "Tick" /\ last'.input_event = "Unfreeze"
           /\ frozen_color # None)
          => /\ frozen_color' = None
             /\ last'.calls = <<>>
             /\ current_color' = current_color
             /\ color_history' = color_history
       /\ (/\ last.msg = "Tick" /\ last.input_event = "Unfreeze" /\ last.was_frozen
           /\ last'.msg = "Tick" /\ last'.input_event # "Freeze"
           /\ last'.monitors # None)
          => last'.calls # <<>>]_vars

\* C13: HistoryColorClicked(c), from Live or from Frozen, leaves the picker
\* Frozen on a sample whose color is c, an entry of the history row, and
\* which has no grid; the live sample and the history are unchanged.
C13_HistoryClickFreezesSynthetic ==
    [][last'.msg = "HistoryColorClicked"
       => /\ frozen_color' # None
          /\ Unwrap(frozen_color').preview = None
          /\ \E i \in 1..Len(color_history) :
               Unwrap(frozen_color').color = color_history[i]
          /\ current_color' = current_color
          /\ color_history' = color_history]_vars

\* C13 witness: a history color was clicked while the picker was frozen on
\* a captured sample; the frozen sample is now the synthetic one, of another
\* color than the live sample, which still holds its grid
C13_Witness ==
    /\ last.msg = "HistoryColorClicked" /\ last.was_frozen
    /\ frozen_color # None /\ Unwrap(frozen_color).preview = None
    /\ current_color # None /\ Unwrap(current_color).preview # None
    /\ Unwrap(frozen_color).color # Unwrap(current_color).color

\* C14: on every tick processed while the picker is Live and no freeze is
\* requested, whatever the unfreeze input, a capture is attempted at the
\* cursor point (capture_region is called when a monitor is enumerated) and
\* a sample it stores replaces the live sample, with that cursor point as
\* its position.
C14_LiveTickCaptures ==
    [][(/\ last'.msg = "Tick" /\ last'.input_event # "Freeze"
        /\ frozen_color = None)
       => /\ last'.monitors # None => last'.calls # <<>>
          /\ (\E c \in Calls' : c.sampled)
               => /\ current_color' # None
                  /\ Unwrap(current_color').position = last'.mouse_pos]_vars

\* C15: live sampling is throttled: with the ticks 33 ms apart, two ticks
\* that follow one another and both issue a capture are at least 50 ms
\* apart.
C15_CapturesAtLeast50msApart ==
    [][(/\ last.msg = "Tick" /\ last.calls # <<>>
        /\ last'.msg = "Tick" /\ last'.calls # <<>>)
       => now' - now >= 50]_vars

\* C16: immediately after any freeze request that leaves the picker
\* Frozen, the frozen sample equals the held live sample; and a freeze
\* request processed in Live while a sample is held (as the second freeze
\* of freeze, unfreeze, freeze is) leaves the picker Frozen.
C16_FrozenEqualsLiveAfterFreeze ==
    [][(last'.msg = "Tick" /\ last'.input_event = "Freeze")
       => /\ frozen_color' # None => frozen_color' = current_color'
          /\ (frozen_color = None /\ current_color # None) => frozen_color' # None]_vars

\* C16 witness: a freeze in Live with the cursor where the held sample was
\* taken: the picker is frozen on the live sample of that position, grid
\* included
C16_Witness ==
    /\ last.msg = "Tick" /\ last.input_event = "Freeze" /\ ~last.was_frozen
    /\ frozen_color # None /\ frozen_color = current_color
    /\ Unwrap(current_color).position = last.mouse_pos
    /\ Unwrap(frozen_color).preview # None

\* The cell (col, row) of the grid, rows first: its 3 bytes in rgb_data
GridCell(preview, col, row) ==
    LET at == (row * PREVIEW_SIZE + col) * 3
    IN <<rgb_data(preview)[at + 1], rgb_data(preview)[at + 2], rgb_data(preview)[at + 3]>>

\* C17: every sample produced by a capture carries a grid of 21 x 21 cells:
\* width and height 21 and 21*21*3 bytes in rgb_data, whatever the cursor
\* point and the clamping offset.
C17_GridIs21x21 ==
    current_color # None
    => /\ Unwrap(current_color).preview # None
       /\ Unwrap(Unwrap(current_color).preview).width = 21
       /\ Unwrap(Unwrap(current_color).preview).height = 21
       /\ Len(rgb_data(Unwrap(Unwrap(current_color).preview))) = 21 * 21 * 3

\* C17 witness: a sample taken through a region that was clamped on both
\* axes holds the full grid
C17_Witness ==
    /\ current_color # None
    /\ \E c \in Calls : c.sampled /\ c.region.offset_x > 0 /\ c.region.offset_y > 0
    /\ Unwrap(current_color).position = last.mouse_pos
    /\ Len(rgb_data(Unwrap(Unwrap(current_color).preview))) = 1323

\* C18: in every sample produced by a capture the center cell (10,10) of
\* the grid holds the picked color, and every cell whose backing pixel lies
\* outside the captured image is black.
C18_CenterCellAndBlackFill ==
    current_color # None
    => LET sample == Unwrap(current_color)
           preview == Unwrap(sample.preview)
       IN /\ GridCell(preview, 10, 10) = <<sample.color.r, sample.color.g, sample.color.b>>
          /\ \A col \in 0..20, row \in 0..20 :
               LET px == preview.center_x + col - 10
                   py == preview.center_y + row - 10
               IN (\/ px < 0 \/ px >= preview.image.width
                   \/ py < 0 \/ py >= preview.image.height)
                  => GridCell(preview, col, row) = <<0, 0, 0>>

\* C18 witness: a sample whose center index is off the middle of the image
\* by an odd number of pixels: the first cell of the grid is black and the
\* center cell holds the picked color, which is not the color in the middle
\* of the image
C18_Witness ==
    /\ current_color # None
    /\ \E c \in Calls :
         /\ c.sampled
         /\ (Unwrap(c.center)[1] + Unwrap(c.center)[2]) % 2 = 1
         /\ Unwrap(c.center)[1] < 10
    /\ GridCell(Unwrap(Unwrap(current_color).preview), 0, 0) = <<0, 0, 0>>
    /\ GridCell(Unwrap(Unwrap(current_color).preview), 10, 10)
         = <<Unwrap(current_color).color.r, Unwrap(current_color).color.g,
             Unwrap(current_color).color.b>>

\* C19: a tick issues at most one capture_region call, and none after a
\* call that failed.
C19_NoCallAfterFailedCapture ==
    /\ Len(last.calls) <= 1
    /\ \A i \in 1..Len(last.calls) : ~last.calls[i].ok => i = Len(last.calls)

\* C20 (as claimed): after a freeze request processed in Live the frozen
\* sample is one captured at the freeze instant, so its position is the
\* cursor point polled on the tick of the freeze, also when the cursor moved
\* since the tick before.
C20_FrozenAtFreezePoint ==
    [][(/\ last'.msg = "Tick" /\ last'.input_event = "Freeze"
        /\ frozen_color = None /\ frozen_color' # None)
       => Unwrap(frozen_color').position = last'.mouse_pos]_vars

\* C20 (amended): a freeze request processed in Live while a sample is held
\* issues no capture; the frozen sample is the held one, with the position
\* it was captured at; and a sample stored by a tick carries the cursor point
\* of that tick.
C20_FrozenAtCapturePoint ==
    [][/\ (/\ last'.msg = "Tick" /\ last'.input_event = "Freeze"
           /\ frozen_color = None /\ current_color # None)
          => /\ last'.calls = <<>>
             /\ frozen_color' # None
             /\ Unwrap(frozen_color').position = Unwrap(current_color).position
       /\ (last'.msg = "Tick" /\ \E c \in Calls' : c.sampled)
          => /\ current_color' # None
             /\ Unwrap(current_color').position = last'.mouse_pos]_vars

\* C20 witness: a freeze in Live after the cursor moved, with a monitor
\* there to capture from: no capture was issued and the frozen sample holds
\* the point of the earlier tick
C20_Witness ==
    /\ last.msg = "Tick" /\ last.input_event = "Freeze" /\ ~last.was_frozen
    /\ last.monitors # None /\ last.calls = <<>>
    /\ frozen_color # None
    /\ Unwrap(frozen_color).position # last.mouse_pos

\* C21: with D1 = (0,0) 1920x1080 and D2 = (1920,0) 1920x1080 on a
\* 3840x2160 framebuffer, the point (1930,10) is captured from D2 only, and
\* the sample is the framebuffer pixel (20,20) of D2 with the clamping
\* offset (0,0).
C21_HiDpiScenario ==
    (/\ last.msg = "Tick" /\ last.monitors = Some(<<MonitorD1, MonitorD2>>)
     /\ last.mouse_pos = <<1930, 10>>)
    => \A c \in Calls :
         /\ c.monitor = MonitorD2
         /\ c.region.offset_x = 0 /\ c.region.offset_y = 0
         /\ c.sampled => /\ c.x + Unwrap(c.center)[1] = 20
                         /\ c.y + Unwrap(c.center)[2] = 20

\* C22: whenever a handler writes the settings to the settings file, on
\* window close or on any other save, the color history written equals the
\* color history in memory, colors appended by freezes included.
C22_SavedHistoryIsMemoryHistory ==
    \A i \in 1..Len(last.saved) :
        last.saved[i].color_history = serializable_history(color_history)

\* C23: a tick is a freeze request if and only if Space is down on that
\* tick and was not down on the tick before; so while Space is held, the
\* ticks after the first leave a Live picker Live and the history as it is,
\* and the first appends at most one color.
C23_FreezeOnRisingEdgeOnly ==
    [][last'.msg = "Tick"
       => /\ (last'.input_event = "Freeze")
               <=> (last'.space_pressed /\ ~last.space_pressed)
          /\ last'.input_event # "Freeze"
               => /\ color_history' = color_history
                  /\ frozen_color = None => frozen_color' = None
          /\ Len(color_history') <= Len(color_history) + 1]_vars

\* C23 witness: Space was down on the tick before and is still down: the
\* tick was no freeze request, no capture was issued and the picker is
\* still frozen on the sample of the first tick
C23_Witness ==
    /\ last.msg = "Tick" /\ last.space_pressed /\ last.was_frozen
    /\ last.input_event = "None"
    /\ last.monitors # None /\ last.calls = <<>>
    /\ frozen_color # None /\ frozen_color = current_color
    /\ color_history # <<>>

\* C24: while the picker is Frozen a tick with neither a freeze nor an
\* unfreeze request issues no capture and leaves the frozen sample, the
\* live sample and the history unchanged; and after every step the frozen
\* sample is absent, equal to the held live sample, or a sample without
\* grid (the synthetic one of a history click).
C24_FrozenHeldUntilReleased ==
    [][/\ (last'.msg = "Tick" /\ last'.input_event = "None" /\ frozen_color # None)
          => /\ last'.calls = <<>>
             /\ frozen_color' = frozen_color
             /\ current_color' = current_color
             /\ color_history' = color_history
       /\ \/ frozen_color' = None
          \/ frozen_color' = current_color'
          \/ Unwrap(frozen_color').preview = None]_vars

\* C24 witness: no key is down, the picker was frozen on a captured sample
\* and the cursor is elsewhere, with a monitor to capture from: nothing was
\* captured and the frozen sample is still the held live one
C24_Witness ==
    /\ last.msg = "Tick" /\ last.input_event = "None" /\ ~last.space_pressed
    /\ last.was_frozen
    /\ last.monitors # None /\ last.calls = <<>>
    /\ frozen_color # None /\ frozen_color = current_color
    /\ Unwrap(frozen_color).preview # None
    /\ Unwrap(frozen_color).position # last.mouse_pos

\* C25: eviction is first-in first-out: when a freeze appends a color to a
\* history of MAX_COLOR_HISTORY (10) entries, the oldest entry is removed,
\* the other entries keep their order and the appended color is the last
\* entry.
C25_EvictionIsFifo ==
    [][(/\ last'.msg = "Tick" /\ last'.input_event = "Freeze"
        /\ frozen_color' # None
        /\ Len(color_history) = MAX_COLOR_HISTORY
        /\ color_history[MAX_COLOR_HISTORY] # Unwrap(frozen_color').color)
       => /\ Len(color_history') = MAX_COLOR_HISTORY
          /\ \A i \in 1..(MAX_COLOR_HISTORY - 1) : color_history'[i] = color_history[i + 1]
          /\ color_history'[MAX_COLOR_HISTORY] = Unwrap(frozen_color').color]_vars

\* C25 witness: a freeze on a history of ten different grays: the first
\* gray is gone, the second to the tenth are the entries 1 to 9 and the
\* frozen color is the last entry
C25_Witness ==
    /\ last.msg = "Tick" /\ last.input_event = "Freeze"
    /\ frozen_color # None
    /\ Len(color_history) = MAX_COLOR_HISTORY
    /\ \A i \in 1..(MAX_COLOR_HISTORY - 1) :
         color_history[i] = Color_from_rgb(i + 1, i + 1, i + 1)
    /\ color_history[MAX_COLOR_HISTORY] = Unwrap(frozen_color).color

====
